---- MODULE Spec2Model ----
(***************************************************************************)
(* On-demand webpack dev-server broker (src/unnamed/part_002, lines        *)
(* 303-571).  Module-level state: httpServer, webpackDevServer and the     *)
(* insertion-ordered Set webpackEntryPoints.  Strings are sequences of     *)
(* one-character strings so that join(','), split(','), slice and          *)
(* path.parse are computed, not assumed.                                   *)
(***************************************************************************)
EXTENDS Integers, Sequences, FiniteSets, TLC

\* ------------------------------------------------------------------ bounds
MaxRequests == 2
MaxProcs == 2
MaxResets == 2

\* ------------------------------------------------------- string helpers
RECURSIVE LastIndexOf(_, _, _)
\* String.prototype.lastIndexOf restricted to s[1..i]; 0 when absent.
LastIndexOf(s, c, i) ==
    IF i = 0 THEN 0
    ELSE IF s[i] = c THEN i ELSE LastIndexOf(s, c, i - 1)

\* s.startsWith(p)  (indexOf(p) === 0)
StartsWith(s, p) ==
    /\ Len(s) >= Len(p)
    /\ SubSeq(s, 1, Len(p)) = p

\* s.endsWith(p)
EndsWith(s, p) ==
    /\ Len(s) >= Len(p)
    /\ SubSeq(s, Len(s) - Len(p) + 1, Len(s)) = p

\* s.slice(-n)
SliceLast(s, n) ==
    IF Len(s) <= n THEN s ELSE SubSeq(s, Len(s) - n + 1, Len(s))

\* s.slice(0, -n)
SliceDropLast(s, n) ==
    IF Len(s) <= n THEN << >> ELSE SubSeq(s, 1, Len(s) - n)

\* path.parse(p): the dir and name fields (posix).
PathParse(p) ==
    LET slash == LastIndexOf(p, "/", Len(p))
        dir   == IF slash = 0 THEN << >>
                 ELSE IF slash = 1 THEN <<"/">>
                 ELSE SubSeq(p, 1, slash - 1)
        base  == SubSeq(p, slash + 1, Len(p))
        dot   == LastIndexOf(base, ".", Len(base))
        name  == IF dot <= 1 THEN base ELSE SubSeq(base, 1, dot - 1)
    IN  [dir |-> dir, name |-> name]

RECURSIVE Join(_)
\* Array.prototype.join(',') over an array of strings.
Join(arr) ==
    IF Len(arr) = 0 THEN << >>
    ELSE IF Len(arr) = 1 THEN arr[1]
    ELSE arr[1] \o <<",">> \o Join(Tail(arr))

RECURSIVE SplitFrom(_, _, _)
\* String.prototype.split(',') : cur is the piece being read, i the index.
SplitFrom(s, i, cur) ==
    IF i > Len(s) THEN <<cur>>
    ELSE IF s[i] = "," THEN <<cur>> \o SplitFrom(s, i + 1, << >>)
    ELSE SplitFrom(s, i + 1, Append(cur, s[i]))

\* ENTRY_TARGET.split(',').filter(Boolean) as the worker reads it.
Split(s) == SelectSeq(SplitFrom(s, 1, << >>), LAMBDA piece : Len(piece) > 0)

\* ------------------------------------------------------- configuration
\* applicationData.getEntryPoints(): each entry is [jsEntries, cssEntries].
EntryPoints ==
    << << << <<"a">> >>, << <<"a", ".", "l">> >> >>,
       << << <<"b">>, <<"c">> >>, << >> >> >>

HotUpdateSuffix == <<".", "h", "o", "t", "-", "u", "p", "d", "a", "t", "e">>
RtlSuffix == <<".", "r", "t", "l">>
SrcLessPrefix == <<"s", "r", "c", "/", "l", "e", "s", "s", "/">>

\* Asset names (extension-less, public path stripped) that requests carry.
Assets ==
    { <<"a">>, <<"b">>, <<"z">>,
      <<"z">> \o HotUpdateSuffix,
      SrcLessPrefix \o <<"a">> }

\* entryTargets options handed to create().
PrimingLists == { << >>, << <<"b">>, <<"a">> >> }

\* JavaScript undefined / the empty string (both falsy).
Undefined == << >>

\* ------------------------------------------------- findRootEntryForAsset
\* The asset with a trailing '.rtl' removed.
AssetWithoutRTL(asset) ==
    IF SliceLast(asset, 4) = RtlSuffix THEN SliceDropLast(asset, 4) ELSE asset

\* cssEntries.forEach body assigns to the const assetWithoutRTL when the
\* asset starts with 'src/less/': a TypeError, raised on the first cssEntry.
CssLoopThrows(cssEntries, asset) ==
    /\ Len(cssEntries) > 0
    /\ StartsWith(AssetWithoutRTL(asset), SrcLessPrefix)

\* `${dir}/${name}` of a css entry.
CssBasename(cssEntry) ==
    PathParse(cssEntry).dir \o <<"/">> \o PathParse(cssEntry).name

\* hasMatch after the jsEntries and cssEntries loops of one entry.
HasMatch(entry, asset) ==
    \/ \E i \in 1..Len(entry[1]) : entry[1][i] = asset
    \/ \E i \in 1..Len(entry[2]) : CssBasename(entry[2][i]) = AssetWithoutRTL(asset)

RECURSIVE FindFrom(_, _, _)
\* entryPoints.forEach from index i on, rootEntry still unset.
FindFrom(entryPoints, asset, i) ==
    IF i > Len(entryPoints) THEN [threw |-> FALSE, rootEntry |-> Undefined]
    ELSE IF CssLoopThrows(entryPoints[i][2], asset)
         THEN [threw |-> TRUE, rootEntry |-> Undefined]
    ELSE IF HasMatch(entryPoints[i], asset) /\ Len(entryPoints[i][1]) > 0
            /\ entryPoints[i][1][1] # Undefined
         THEN [threw |-> FALSE, rootEntry |-> entryPoints[i][1][1]]
    ELSE FindFrom(entryPoints, asset, i + 1)

\* entryPoints stands for props.applicationData.getEntryPoints().
findRootEntryForAsset(entryPoints, asset) == FindFrom(entryPoints, asset, 1)

\* ------------------------------------------------------------ the state
VARIABLES
    httpServer,          \* "undefined", or the server: "listening" / "closed"
    servers,             \* every http.Server created so far, one per create()
    webpackEntryPoints,  \* the Set, as its insertion-ordered element list
    webpackDevServer,    \* 0 = undefined, else the child process handle
    procs,               \* every child process spawned so far
    log,                 \* reset / kill / spawn calls in program order
    req,                 \* the requests and where their handler stands
    lookup,              \* one findRootEntryForAsset call, taken on its own
    sheet,               \* the style sheets on disk and the plugin options
    nodesOf,             \* the `nodes` array of every parsed container
    imports,             \* the Map fullpath -> import record
    orderedImports,      \* the array of import records
    records,             \* the import record objects
    stack,               \* the pending findImports calls
    reads,               \* readFile calls so far, in order
    messages,            \* result.messages of the root result
    thrown,              \* the error OnceExit rejected with, "" if none
    phase,               \* where OnceExit of the root stands
    previous             \* how an earlier resolve of the same sheet ended

brokerVars == <<httpServer, servers, webpackEntryPoints, webpackDevServer,
                procs, log, req>>

resolverVars == <<sheet, nodesOf, imports, orderedImports, records,
                  stack, reads, messages, thrown, phase, previous>>

vars == <<brokerVars, lookup, resolverVars>>

\* No findRootEntryForAsset call is being looked at.
NoLookup == [state |-> "none"]

\* No resolve of the sheet has ended yet.
NoRun == [phase |-> "none"]

\* No style sheet is being processed.
ResolverIdle ==
    /\ sheet = << >>
    /\ nodesOf = << >>
    /\ imports = << >>
    /\ orderedImports = << >>
    /\ records = << >>
    /\ stack = << >>
    /\ reads = << >>
    /\ messages = << >>
    /\ thrown = ""
    /\ phase = "idle"
    /\ previous = NoRun

Requests == 1..MaxRequests

\* spawned: the process this request's spawnWebpackForEntry started, 0 when
\* it reported reuse.
NewRequest ==
    [pc |-> "new", asset |-> Undefined, rootEntry |-> Undefined,
     reused |-> FALSE, spawned |-> 0, graced |-> FALSE, probed |-> FALSE]

\* A finished request: only its outcome is kept.
Finished(rec, outcome) == [NewRequest EXCEPT !.pc = outcome]

\* The module as loaded: no listener, no worker, an empty set.
BrokerIdle ==
    /\ httpServer = "undefined"
    /\ servers = << >>
    /\ webpackEntryPoints = << >>
    /\ webpackDevServer = 0
    /\ procs = << >>
    /\ log = << >>
    /\ req = [r \in Requests |-> NewRequest]

Init ==
    /\ BrokerIdle
    /\ lookup = NoLookup
    /\ ResolverIdle

\* Number of reset() calls so far.
Resets == Cardinality({i \in 1..Len(log) : log[i][1] = "reset"})

\* ------------------------------------------------- spawnWebpackForEntry
\* webpackEntryPoints.has(target)
SetHas(set, target) == \E i \in 1..Len(set) : set[i] = target

\* Mutant: add() that never inserts.
SetAdd_Forget(set, target) == set

\* webpackEntryPoints.add(target)
SetAdd(set, target) == IF SetHas(set, target) THEN set ELSE Append(set, target)

\* Mutant: the reuse test always sees a new target.
hasNewTargets_Always(entryTargets, set) == TRUE

\* entryTargets.some((target) => !webpackEntryPoints.has(target))
hasNewTargets(entryTargets, set) ==
    \E i \in 1..Len(entryTargets) : ~SetHas(set, entryTargets[i])

\* Mutant: the new targets replace the tracked ones instead of joining them.
TrackTargets_Replace(entryTargets, set) == entryTargets

RECURSIVE TrackTargets(_, _)
\* entryTargets.forEach((target) => webpackEntryPoints.add(target))
TrackTargets(entryTargets, set) ==
    IF Len(entryTargets) = 0 THEN set
    ELSE TrackTargets(Tail(entryTargets), SetAdd(set, Head(entryTargets)))

\* webpackDevServer.kill(): the signal is sent, the child exits later.
Kill(ps, handle) ==
    [ps EXCEPT ![handle] = [@ EXCEPT !.killed = TRUE]]

\* Mutant: the worker is given only the targets of this call.
EntryTargetEnv_OnlyNew(entryTargets, set) == Join(entryTargets)

\* The env.ENTRY_TARGET a worker is spawned with.
EntryTargetEnv(entryTargets, set) == Join(set)

\* childProcess.spawn(...)
SpawnedProcess(entryTargets, set) ==
    [ENTRY_TARGET |-> EntryTargetEnv(entryTargets, set),
     state |-> "starting", killed |-> FALSE]

\* The broker state spawnWebpackForEntry and reset read and write.
Broker == [set |-> webpackEntryPoints, handle |-> webpackDevServer,
           procs |-> procs, log |-> log]

\* Mutant: the previous worker is left running.
KillExisting_Skip(b) == b

\* if (webpackDevServer) { webpackDevServer.kill(); }
KillExisting(b) ==
    IF b.handle # 0
    THEN [b EXCEPT !.procs = Kill(b.procs, b.handle),
                   !.log = Append(b.log, <<"kill", b.handle>>)]
    ELSE b

\* webpackDevServer = childProcess.spawn(...)
SpawnNew(entryTargets, b) ==
    [b EXCEPT !.procs = Append(b.procs, SpawnedProcess(entryTargets, b.set)),
              !.handle = Len(b.procs) + 1,
              !.log = Append(b.log, <<"spawn", Len(b.procs) + 1>>)]

\* The whole function: it contains no await, so it runs in one step.
spawnWebpackForEntry(entryTargets, b) ==
    IF ~hasNewTargets(entryTargets, b.set)
    THEN [reused |-> TRUE, b |-> b]
    ELSE [reused |-> FALSE,
          b |-> SpawnNew(entryTargets,
                    KillExisting([b EXCEPT !.set = TrackTargets(entryTargets, b.set)]))]

\* ---------------------------------------------------------------- reset
\* Mutant: reset() that forgets to clear the set.
ClearedSet_Kept(set) == set

\* webpackEntryPoints.clear()
ClearedSet(set) == << >>

\* Mutant: reset keeps the handle.
ClearedHandle_Kept(handle) == handle

\* webpackDevServer = undefined
ClearedHandle(handle) == 0

\* reset(): clear the set, kill the dev server, forget the handle.
reset(b) ==
    LET killed == KillExisting([b EXCEPT !.log = Append(b.log, <<"reset", 0>>)])
    IN  [killed EXCEPT !.set = ClearedSet(b.set),
                       !.handle = ClearedHandle(b.handle)]

SetBroker(b) ==
    /\ webpackEntryPoints' = b.set
    /\ webpackDevServer' = b.handle
    /\ procs' = b.procs
    /\ log' = b.log

\* Mutant: each broker object closes the server of its own create().
CurrentServer_Own(svs, k) == k

\* The server the module-level httpServer refers to: the latest one,
\* whichever create() call's closure (k, 0 inside create) runs reset().
CurrentServer(svs, k) == Len(svs)

\* if (httpServer) { httpServer.close(); }
CloseServer(svs, k) == IF k = 0 THEN svs ELSE [svs EXCEPT ![k] = "closed"]

\* getDevServer() of the object the k-th create() returned.
getDevServer(k) == webpackDevServer

\* exports.create: reset(), optional priming, a new listening httpServer.
create(entryTargets) ==
    /\ LET cleared == reset(Broker)
           primed  == IF Len(entryTargets) > 0
                      THEN spawnWebpackForEntry(entryTargets, cleared).b
                      ELSE cleared
       IN  SetBroker(primed)
    /\ httpServer' = "listening"
    /\ servers' = Append(CloseServer(servers, CurrentServer(servers, 0)),
                         "listening")
    /\ UNCHANGED <<req, lookup, resolverVars>>

Create(entryTargets) ==
    /\ Resets < MaxResets
    /\ Len(entryTargets) > 0 => Len(procs) < MaxProcs
    /\ create(entryTargets)

\* The reset() of the public API, called on the object the k-th create()
\* returned.
apiReset(k) ==
    /\ SetBroker(reset(Broker))
    /\ httpServer' = "closed"
    /\ servers' = CloseServer(servers, CurrentServer(servers, k))
    /\ UNCHANGED <<req, lookup, resolverVars>>

Reset(k) ==
    /\ httpServer # "undefined"
    /\ Resets < MaxResets
    /\ apiReset(k)

\* ------------------------------------------------------ request handler
\* Mutant: the hot-update test never fires.
IsHotUpdate_Never(asset) == FALSE

\* asset.endsWith('.hot-update')
IsHotUpdate(asset) == EndsWith(asset, HotUpdateSuffix)

\* The synchronous head of the handler, up to its first await.
Arrive(r, asset) ==
    /\ httpServer = "listening"
    /\ req[r].pc = "new"
    /\ r > 1 => req[r - 1].pc # "new"
    /\ LET found == findRootEntryForAsset(EntryPoints, asset)
           res   == spawnWebpackForEntry(<<found.rootEntry>>, Broker)
           rec   == [req[r] EXCEPT !.asset = asset]
       IN  IF IsHotUpdate(asset)
           THEN /\ req' = [req EXCEPT ![r] = [rec EXCEPT !.pc = "proxying"]]
                /\ UNCHANGED <<webpackEntryPoints, webpackDevServer, procs, log>>
           ELSE IF found.threw
           THEN /\ req' = [req EXCEPT ![r] = Finished(rec, "abandoned")]
                /\ UNCHANGED <<webpackEntryPoints, webpackDevServer, procs, log>>
           ELSE IF found.rootEntry = Undefined
           THEN /\ req' = [req EXCEPT ![r] = [rec EXCEPT !.pc = "waitAny"]]
                /\ UNCHANGED <<webpackEntryPoints, webpackDevServer, procs, log>>
           ELSE /\ ~res.reused => Len(procs) < MaxProcs
                /\ SetBroker(res.b)
                /\ req' = [req EXCEPT ![r] =
                             [rec EXCEPT !.pc = "ensured",
                                         !.rootEntry = found.rootEntry,
                                         !.reused = res.reused,
                                         !.spawned = IF res.reused THEN 0
                                                     ELSE res.b.handle]]
    /\ UNCHANGED <<httpServer, servers, lookup, resolverVars>>

\* Mutant: the grace delay is skipped after a spawn.
AfterEnsure_NoGrace(reused) == "probe"

\* What the handler does when `await spawnWebpackForEntry` resumes.
AfterEnsure(reused) == IF reused THEN "probe" ELSE "grace"

Resume(r) ==
    /\ req[r].pc = "ensured"
    /\ req' = [req EXCEPT ![r] = [@ EXCEPT !.pc = AfterEnsure(req[r].reused)]]
    /\ UNCHANGED <<httpServer, servers, webpackEntryPoints, webpackDevServer,
                   procs, log, lookup, resolverVars>>

\* setTimeout(resolve, 1000) fires; waitPort starts.
GraceElapsed(r) ==
    /\ req[r].pc = "grace"
    /\ req' = [req EXCEPT ![r] = [@ EXCEPT !.pc = "probe", !.graced = TRUE]]
    /\ UNCHANGED <<httpServer, servers, webpackEntryPoints, webpackDevServer,
                   procs, log, lookup, resolverVars>>

\* The processes accepting connections on devServerPort (at most one).
Listeners == {p \in 1..Len(procs) : procs[p].state = "listening"}

PortOpen == Listeners # {}

\* Mutant: the handler goes back to waiting for the port.
AfterProbe_Wait == "probe"

\* Where the handler goes once waitPort({port}) has resolved.
AfterProbe == "proxying"

\* waitPort({ port }) connects: log, then proxyRequest.
ProbeOpen(r) ==
    /\ req[r].pc = "probe"
    /\ PortOpen
    /\ req' = [req EXCEPT ![r] = [@ EXCEPT !.pc = AfterProbe, !.probed = TRUE]]
    /\ UNCHANGED <<httpServer, servers, webpackEntryPoints, webpackDevServer,
                   procs, log, lookup, resolverVars>>

\* Mutant: the catch block falls through to proxyRequest.
AfterProbeReject_Proxy == "proxying"

\* catch (e) { console.log(e); }: the handler ends, nothing is sent.
AfterProbeReject == "abandoned"

\* waitPort rejects: caught and logged, nothing is sent to the requester.
ProbeReject(r) ==
    /\ req[r].pc = "probe"
    /\ req' = [req EXCEPT ![r] = Finished(req[r], AfterProbeReject)]
    /\ UNCHANGED <<httpServer, servers, webpackEntryPoints, webpackDevServer,
                   procs, log, lookup, resolverVars>>

\* waitPort({ port, timeout: 1000 }) resolves (open or timed out): proxy.
WaitAnyDone(r) ==
    /\ req[r].pc = "waitAny"
    /\ req' = [req EXCEPT ![r] = [@ EXCEPT !.pc = "proxying"]]
    /\ UNCHANGED <<httpServer, servers, webpackEntryPoints, webpackDevServer,
                   procs, log, lookup, resolverVars>>

\* What becomes of the handler when waitPort({ port, timeout: 1000 })
\* rejects: the await is outside any try, so the handler's promise rejects.
AfterWaitAnyReject == "abandoned"

WaitAnyReject(r) ==
    /\ req[r].pc = "waitAny"
    /\ req' = [req EXCEPT ![r] = Finished(req[r], AfterWaitAnyReject)]
    /\ UNCHANGED <<httpServer, servers, webpackEntryPoints, webpackDevServer,
                   procs, log, lookup, resolverVars>>

\* proxyRequest: the forwarded request reaches whoever holds the port.
ProxyForward(r) ==
    /\ req[r].pc = "proxying"
    /\ PortOpen
    /\ req' = [req EXCEPT ![r] = Finished(req[r], "served")]
    /\ UNCHANGED <<httpServer, servers, webpackEntryPoints, webpackDevServer,
                   procs, log, lookup, resolverVars>>

\* Mutant: the error listener ends nothing, the requester is left waiting.
ProxyErrorOutcome_Hang == "abandoned"

\* .on('error'): res.statusCode = 404; res.end().
ProxyErrorOutcome == "notfound"

\* proxyRequest .on('error'): the requester gets the 404.
ProxyFail(r) ==
    /\ req[r].pc = "proxying"
    /\ req' = [req EXCEPT ![r] = Finished(req[r], ProxyErrorOutcome)]
    /\ UNCHANGED <<httpServer, servers, webpackEntryPoints, webpackDevServer,
                   procs, log, lookup, resolverVars>>

\* ------------------------------------------------------ worker processes
\* The spawned `webpack serve --port devServerPort` binds the port.
WorkerListen(p) ==
    /\ procs[p].state = "starting"
    /\ ~procs[p].killed
    /\ ~PortOpen
    /\ procs' = [procs EXCEPT ![p] = [@ EXCEPT !.state = "listening"]]
    /\ UNCHANGED <<httpServer, servers, webpackEntryPoints, webpackDevServer,
                   log, req, lookup, resolverVars>>

\* The port is still held by another process: EADDRINUSE, the worker exits.
WorkerBindFail(p) ==
    /\ procs[p].state = "starting"
    /\ PortOpen
    /\ procs' = [procs EXCEPT ![p] = [@ EXCEPT !.state = "exited"]]
    /\ UNCHANGED <<httpServer, servers, webpackEntryPoints, webpackDevServer,
                   log, req, lookup, resolverVars>>

\* A killed worker receives the signal and exits.
WorkerExit(p) ==
    /\ procs[p].killed
    /\ procs[p].state # "exited"
    /\ procs' = [procs EXCEPT ![p] = [@ EXCEPT !.state = "exited"]]
    /\ UNCHANGED <<httpServer, servers, webpackEntryPoints, webpackDevServer,
                   log, req, lookup, resolverVars>>

\* Mutant: an exit listener forgets the worker and its targets.
WorkerCrash_Noticed(p) ==
    /\ ~procs[p].killed
    /\ procs[p].state # "exited"
    /\ procs' = [procs EXCEPT ![p] = [@ EXCEPT !.state = "exited"]]
    /\ webpackDevServer' = IF webpackDevServer = p THEN 0 ELSE webpackDevServer
    /\ webpackEntryPoints' = IF webpackDevServer = p THEN << >>
                             ELSE webpackEntryPoints
    /\ UNCHANGED <<httpServer, servers, log, req, lookup, resolverVars>>

\* A worker exits on its own; the broker registers no exit listener.
WorkerCrash(p) ==
    /\ ~procs[p].killed
    /\ procs[p].state # "exited"
    /\ procs' = [procs EXCEPT ![p] = [@ EXCEPT !.state = "exited"]]
    /\ UNCHANGED <<httpServer, servers, webpackEntryPoints, webpackDevServer,
                   log, req, lookup, resolverVars>>

Next ==
    \/ \E t \in PrimingLists : Create(t)
    \/ \E k \in 1..Len(servers) : Reset(k)
    \/ \E r \in Requests, a \in Assets : Arrive(r, a)
    \/ \E r \in Requests : Resume(r)
    \/ \E r \in Requests : GraceElapsed(r)
    \/ \E r \in Requests : ProbeOpen(r)
    \/ \E r \in Requests : ProbeReject(r)
    \/ \E r \in Requests : WaitAnyDone(r)
    \/ \E r \in Requests : WaitAnyReject(r)
    \/ \E r \in Requests : ProxyForward(r)
    \/ \E r \in Requests : ProxyFail(r)
    \/ \E p \in 1..Len(procs) : WorkerListen(p)
    \/ \E p \in 1..Len(procs) : WorkerBindFail(p)
    \/ \E p \in 1..Len(procs) : WorkerExit(p)
    \/ \E p \in 1..Len(procs) : WorkerCrash(p)

Spec == Init /\ [][Next]_vars

\* The assets the handler matches to an entry target.
EntryAssets ==
    {a \in Assets :
        /\ ~IsHotUpdate(a)
        /\ ~findRootEntryForAsset(EntryPoints, a).threw
        /\ findRootEntryForAsset(EntryPoints, a).rootEntry # Undefined}

\* One create(), then requests for entry assets only: every restart is
\* triggered by a request.
NextLive ==
    \/ \E t \in PrimingLists : httpServer = "undefined" /\ Create(t)
    \/ \E r \in Requests, a \in EntryAssets : Arrive(r, a)
    \/ \E r \in Requests : Resume(r)
    \/ \E r \in Requests : GraceElapsed(r)
    \/ \E r \in Requests : ProbeOpen(r)
    \/ \E r \in Requests : ProbeReject(r)
    \/ \E r \in Requests : ProxyForward(r)
    \/ \E r \in Requests : ProxyFail(r)
    \/ \E p \in 1..Len(procs) : WorkerListen(p)
    \/ \E p \in 1..Len(procs) : WorkerBindFail(p)
    \/ \E p \in 1..Len(procs) : WorkerExit(p)
    \/ \E p \in 1..Len(procs) : WorkerCrash(p)

\* ------------------------------------------- several brokers in a process
MaxBrokers == 2

\* Calls of reset() made through the returned objects.
ApiResets == Resets - Len(servers)

\* create() is called again in the same process.
CreateBroker(entryTargets) ==
    /\ Len(servers) < MaxBrokers
    /\ Len(entryTargets) > 0 => Len(procs) < MaxProcs
    /\ create(entryTargets)

\* reset() is called on the object one of the create() calls returned.
ResetBroker(k) ==
    /\ ApiResets < MaxResets
    /\ apiReset(k)

NextBrokers ==
    \/ \E t \in PrimingLists : CreateBroker(t)
    \/ \E k \in 1..Len(servers) : ResetBroker(k)
    \/ \E r \in Requests, a \in EntryAssets : Arrive(r, a)
    \/ \E p \in 1..Len(procs) : WorkerListen(p)
    \/ \E p \in 1..Len(procs) : WorkerExit(p)

SpecBrokers == Init /\ [][NextBrokers]_vars

\* The handler's continuations are run by the event loop: a resolved
\* promise, an elapsed timer and a waitPort poll that finds the port open
\* are not postponed for ever.
HandlerFairness ==
    \A r \in Requests :
        /\ WF_vars(Resume(r))
        /\ WF_vars(GraceElapsed(r))
        /\ WF_vars(ProbeOpen(r))

SpecLive == Init /\ [][NextLive]_vars /\ HandlerFairness

\* ------------------------------------- findRootEntryForAsset on its own
\* The function is pure: it is applied to entry point lists and assets
\* drawn from the sets below.
MaxEntries == 2

IndexJs == <<"i", "n", "d", "e", "x", ".", "j", "s">>
MainJs == <<"m", "a", "i", "n", ".", "j", "s">>
Styles == <<"s", "t", "y", "l", "e", "s">>
LessExt == <<".", "l", "e", "s", "s">>
LessDir == <<"l", "e", "s", "s", "/">>

\* jsEntries and cssEntries lists an entry point may have.
JsLists == { << >>, <<IndexJs>>, <<MainJs, IndexJs>> }

CssLists ==
    { << >>, <<Styles>>, <<Styles \o LessExt>>,
      <<LessDir \o Styles \o LessExt>> }

\* Results of getEntryPoints(): up to MaxEntries [jsEntries, cssEntries].
EntryPointLists ==
    UNION { [1..k -> {<<js, css>> : js \in JsLists, css \in CssLists}] :
            k \in 1..MaxEntries }

\* Assets findRootEntryForAsset is asked about.
LookupAssets ==
    { IndexJs, MainJs, <<"z">>, SrcLessPrefix \o <<"z">>,
      Styles, Styles \o RtlSuffix,
      SrcLessPrefix \o Styles, SrcLessPrefix \o Styles \o RtlSuffix,
      <<"/">> \o Styles, <<"/">> \o Styles \o RtlSuffix,
      LessDir \o Styles, LessDir \o Styles \o RtlSuffix }

InitLookup ==
    /\ BrokerIdle
    /\ ResolverIdle
    /\ lookup \in [state : {"call"}, entryPoints : EntryPointLists,
                    asset : LookupAssets, rootEntry : {Undefined}]

\* const rootEntry = findRootEntryForAsset(props, asset)
Lookup ==
    /\ lookup.state = "call"
    /\ LET found == findRootEntryForAsset(lookup.entryPoints, lookup.asset)
       IN  lookup' = [lookup EXCEPT
                        !.state = IF found.threw THEN "threw" ELSE "returned",
                        !.rootEntry = found.rootEntry]
    /\ UNCHANGED <<brokerVars, resolverVars>>

NextLookup == Lookup

SpecLookup == InitLookup /\ [][NextLookup]_vars

\* ------------------------------------------------ style import resolver
(***************************************************************************)
(* src/packages/postcss-import/index.js.  A style sheet is a tree of       *)
(* nodes; every container (a root or a rule) owns a mutable `nodes` array. *)
(* Node objects are shared by reference when arrays are spliced, so the    *)
(* arrays live in the heap nodesOf, indexed by container.                  *)
(***************************************************************************)
MaxFiles == 3
MaxImports == 3

\* fromInclusionRule values an @import may carry ("" is undefined).
InclusionRules == {"s", "t"}

NoRule == ""

\* options.modifier of the webpack configuration.
Modifier == "&"

\* `.${rule}`
DotSelector(rule) == <<".", rule>>

\* `${options.modifier}${selector}`
ModifiedSelector(selector) == <<Modifier>> \o selector

\* A path is <<directory, file name>>; a uri is <<".", name>> ('./name') or
\* <<dir, name>> ('../dir/name'), both containing a '/'.
\* importOpts.resolve(uri, base): path.join(base, uri).
Resolve(uri, base) ==
    IF uri[1] = "." THEN <<base, uri[2]>> ELSE <<uri[1], uri[2]>>

\* path.dirname
Dirname(path) == path[1]

\* result.opts.from of the root style sheet: file 1.
RootFile == 1

PathOf(files, f) == <<files[f].dir, f>>

\* The file exists on disk.
Exists(path) ==
    /\ path[2] \in 1..Len(sheet.files)
    /\ sheet.files[path[2]].dir = path[1]

\* A node object: the k-th parse of file `file` made it for item `item`.
Node(file, item, kind, parse) ==
    [file |-> file, item |-> item, kind |-> kind, parse |-> parse]

NoNode == Node(0, 0, "none", 0)

\* The @import (and its wrapping) a node was parsed from.
ItemOf(n) == sheet.files[n.file].items[n.item]

\* isImportNode
isImportNode(n) == n.kind = "import"

\* node.nodes is defined: roots and rules.
HasNodes(n) == n.kind \in {"root", "rule"}

\* node.selector (undefined, << >>, for anything but a rule).
Selector(n) == IF n.kind = "rule" THEN ItemOf(n).sel ELSE << >>

\* styleNode.filename with the quotes removed.
Filename(n) ==
    LET it == ItemOf(n)
    IN  IF it.rel THEN <<".", it.target>>
        ELSE <<sheet.files[it.target].dir, it.target>>

\* styleNode.fromInclusionRule
FromInclusionRule(n) == ItemOf(n).tag

\* node.parent as the parser set it.
Parent(n) ==
    IF n.kind = "own" \/ (n.kind \in {"import", "comment"} /\ ItemOf(n).sel # << >>)
    THEN Node(n.file, n.item, "rule", n.parse)
    ELSE Node(n.file, 0, "root", n.parse)

\* The comment (if any) and the @import of item i.
ItemBody(f, i, k) ==
    (IF sheet.files[f].items[i].comment # "none"
     THEN <<Node(f, i, "comment", k)>> ELSE << >>)
    \o <<Node(f, i, "import", k)>>

RECURSIVE TopLevel(_, _, _)
\* The top-level nodes of file f from item i on: each item bare or inside
\* its rule, and last the file's own declaration.
TopLevel(f, i, k) ==
    IF i > Len(sheet.files[f].items) THEN <<Node(f, 0, "decl", k)>>
    ELSE (IF sheet.files[f].items[i].sel = << >>
          THEN ItemBody(f, i, k)
          ELSE <<Node(f, i, "rule", k)>>)
         \o TopLevel(f, i + 1, k)

\* postcss parse of file f: the `nodes` arrays of its root and its rules.
Parse(f, k) ==
    LET rules == {i \in 1..Len(sheet.files[f].items) :
                    sheet.files[f].items[i].sel # << >>}
    IN  [c \in {Node(f, 0, "root", k)} \cup {Node(f, i, "rule", k) : i \in rules}
           |-> IF c.kind = "root" THEN TopLevel(f, 1, k)
               ELSE ItemBody(f, c.item, k) \o <<Node(f, c.item, "own", k)>>]

\* ------------------------------------------------------- the input sheets
\* An @import of file `target`: bare at the top level when sel is << >>,
\* else inside a rule with selector sel; tag is its fromInclusionRule.
Item(target, tag, sel, rel, comment) ==
    [target |-> target, tag |-> tag, sel |-> sel, rel |-> rel,
     comment |-> comment]

\* A global import, and an import inside the inclusion rule `.tag`.
GlobalImport(target) == Item(target, NoRule, << >>, TRUE, "none")

ScopedImport(target, tag) ==
    Item(target, tag, DotSelector(tag), TRUE, "none")

\* The imports file f may hold: only of later files, so the graph is acyclic.
ItemsOf(f) ==
    {GlobalImport(g) : g \in (f + 1)..MaxFiles}
    \cup {ScopedImport(g, tag) : g \in (f + 1)..MaxFiles, tag \in InclusionRules}

\* Files f..MaxFiles, all in directory "p", with at most `budget` imports.
RECURSIVE FilesFrom(_, _)
FilesFrom(f, budget) ==
    IF f > MaxFiles THEN {<< >>}
    ELSE UNION {
           { <<[dir |-> "p", items |-> items]>> \o rest :
               items \in [1..n -> ItemsOf(f)], rest \in FilesFrom(f + 1, budget - n) } :
           n \in 0..budget }

GeneratedSheets ==
    [plugins : BOOLEAN, files : FilesFrom(1, MaxImports)]

\* Hand-written sheets for what the generated ones leave out: a second
\* directory, the modifier form of a selector, comments before imports.
File(dir, items) == [dir |-> dir, items |-> items]

\* Root p/1 imports q/3 inside .s and q/2 globally; q/2 imports ./3 inside .t.
TwoDirectories ==
    <<File("p", <<Item(3, "s", DotSelector("s"), FALSE, "none"),
                  Item(2, NoRule, << >>, FALSE, "none")>>),
      File("q", <<Item(3, "t", DotSelector("t"), TRUE, "none")>>),
      File("q", << >>)>>

\* The inclusion rule is written `&.s`; comments precede two imports.
ModifierAndComments ==
    <<File("p", <<Item(2, "s", ModifiedSelector(DotSelector("s")), TRUE, "plain"),
                  Item(3, NoRule, << >>, TRUE, "condition")>>),
      File("p", <<Item(3, NoRule, << >>, TRUE, "plain")>>),
      File("p", << >>)>>

\* Root p/1 imports './2', but file 2 lies in q: there is no p/2 to read.
MissingFile ==
    <<File("p", <<GlobalImport(2)>>), File("q", << >>)>>

\* The import of file 2 carries the inclusion rule "s" but stands in `.t`:
\* no rule of the sheet has the selector `.s`.
MissingScopeRule ==
    <<File("p", <<Item(2, "s", DotSelector("t"), TRUE, "none")>>),
      File("p", << >>)>>

ExtraSheets ==
    [plugins : BOOLEAN,
     files : {TwoDirectories, ModifierAndComments, MissingFile,
              MissingScopeRule}]

Sheets == GeneratedSheets \cup ExtraSheets

\* --------------------------------------------------- OnceExit: discovery
\* A pending findImports(styles, fromPath) call: i is the node the reduce
\* stands at, plugins tells whether the plugin instance running it was given
\* options.plugins, root is the root parsed for the import being handled.
Frame(styles, fromPath, plugins) ==
    [styles |-> styles, i |-> 1, fromPath |-> fromPath, plugins |-> plugins,
     pc |-> "visit", root |-> NoNode]

\* The root style sheet has been parsed and OnceExit has called
\* findImports(rootStyles, from).
InitResolver ==
    /\ BrokerIdle
    /\ lookup = NoLookup
    /\ sheet \in Sheets
    /\ nodesOf = Parse(RootFile, 0)
    /\ imports = << >>
    /\ orderedImports = << >>
    /\ records = << >>
    /\ stack = <<Frame(Node(RootFile, 0, "root", 0),
                       PathOf(sheet.files, RootFile), sheet.plugins)>>
    /\ reads = << >>
    /\ messages = << >>
    /\ thrown = ""
    /\ phase = "discover"
    /\ previous = NoRun

Top == stack[Len(stack)]

\* The styleNode the innermost reduce stands at.
StyleNode == nodesOf[Top.styles][Top.i]

AtNode ==
    /\ phase = "discover"
    /\ Top.pc = "visit"
    /\ Top.i <= Len(nodesOf[Top.styles])

\* options.resolve(filename, dirname(fromPath))
FullPath == Resolve(Filename(StyleNode), Dirname(Top.fromPath))

SetTop(frame) == [stack EXCEPT ![Len(stack)] = frame]

\* Mutant: the reduce stays at the same node.
Advance_Stay(frame) == [frame EXCEPT !.pc = "visit"]

\* The reduce callback returns: on to the next node.
Advance(frame) == [frame EXCEPT !.i = @ + 1, !.pc = "visit"]

\* Mutant: the Map never reports a path as present.
ImportsHas_Never(map, path) == FALSE

\* imports.has(fullpath)
ImportsHas(map, path) == path \in DOMAIN map

\* imports.set(fullpath, importOpts)
ImportsSet(map, path, id) == (path :> id) @@ map

\* Mutant: the record is pushed twice.
OrderedPush_Twice(list, id) == list \o <<id, id>>

\* orderedImports.push(importOpts)
OrderedPush(list, id) == Append(list, id)

\* new Set(...).add(rule), kept in insertion order.
RuleAdd(rules, rule) ==
    IF \E j \in 1..Len(rules) : rules[j] = rule THEN rules ELSE Append(rules, rule)

\* Mutant: the latest reference decides alone.
Merged_Overwrite(rec, rule) ==
    [rec EXCEPT !.isGloballyImported = (rule = NoRule),
                !.inclusionRules = IF rule = NoRule THEN << >> ELSE <<rule>>]

\* The branch taken when the path already has a record (lines 70-88).
Merged(rec, rule) ==
    IF rule = NoRule
    THEN [rec EXCEPT !.isGloballyImported = TRUE]
    ELSE [rec EXCEPT !.inclusionRules = RuleAdd(@, rule)]

\* The import record built at lines 107-123.
ImportOpts(root, styleNode, fullpath, fromPath) ==
    [root |-> root, styleNode |-> styleNode, fullpath |-> fullpath,
     fromPath |-> fromPath,
     isGloballyImported |-> FromInclusionRule(styleNode) = NoRule,
     inclusionRules |-> IF FromInclusionRule(styleNode) = NoRule THEN << >>
                        ELSE <<FromInclusionRule(styleNode)>>]

\* An @import of a path that has a record: the record is updated.
Merge ==
    /\ AtNode
    /\ isImportNode(StyleNode)
    /\ ImportsHas(imports, FullPath)
    /\ records' = [records EXCEPT ![imports[FullPath]] =
                     Merged(@, FromInclusionRule(StyleNode))]
    /\ stack' = SetTop(Advance(Top))
    /\ UNCHANGED <<sheet, nodesOf, imports, orderedImports, reads, messages,
                   thrown, phase, brokerVars, lookup, previous>>

\* An @import of a new path: await readFile(fullpath).
ReadFile ==
    /\ AtNode
    /\ isImportNode(StyleNode)
    /\ ~ImportsHas(imports, FullPath)
    /\ reads' = Append(reads, FullPath)
    /\ IF Exists(FullPath)
       THEN /\ stack' = SetTop([Top EXCEPT !.pc = "read"])
            /\ UNCHANGED <<thrown, phase>>
       ELSE /\ thrown' = "ENOENT"
            /\ phase' = "failed"
            /\ UNCHANGED stack
    /\ UNCHANGED <<sheet, nodesOf, imports, orderedImports, records, messages,
                   brokerVars, lookup, previous>>

\* How often the path has been read before the latest read.
EarlierReads(path) ==
    Cardinality({j \in 1..Len(reads) : reads[j] = path}) - 1

\* await postcss(options.plugins || []).process(contents, {nested: true}):
\* the file is parsed; with plugins, the inner plugin's OnceExit starts its
\* own findImports on the new root, sharing imports and orderedImports.
Process ==
    /\ phase = "discover"
    /\ Top.pc = "read"
    /\ LET f == FullPath[2]
           k == EarlierReads(FullPath)
           root == Node(f, 0, "root", k)
       IN  /\ nodesOf' = Parse(f, k) @@ nodesOf
           /\ stack' =
                IF Top.plugins
                THEN Append(SetTop([Top EXCEPT !.pc = "nested", !.root = root]),
                            Frame(root, FullPath, FALSE))
                ELSE SetTop([Top EXCEPT !.pc = "processed", !.root = root])
    /\ UNCHANGED <<sheet, imports, orderedImports, records, reads, messages,
                   thrown, phase, brokerVars, lookup, previous>>

\* Lines 107-133: build the record, imports.set, orderedImports.push, then
\* findImports(root, fullpath).
Register ==
    /\ phase = "discover"
    /\ Top.pc = "processed"
    /\ LET id == Len(records) + 1
       IN  /\ records' = Append(records,
                            ImportOpts(Top.root, StyleNode, FullPath, Top.fromPath))
           /\ imports' = ImportsSet(imports, FullPath, id)
           /\ orderedImports' = OrderedPush(orderedImports, id)
    /\ stack' = Append(SetTop([Top EXCEPT !.pc = "recurse"]),
                       Frame(Top.root, FullPath, Top.plugins))
    /\ UNCHANGED <<sheet, nodesOf, reads, messages, thrown, phase,
                   brokerVars, lookup, previous>>

\* else if (styleNode.nodes) await findImports(styleNode, fromPath)
Descend ==
    /\ AtNode
    /\ ~isImportNode(StyleNode)
    /\ HasNodes(StyleNode)
    /\ stack' = Append(SetTop([Top EXCEPT !.pc = "recurse"]),
                       Frame(StyleNode, Top.fromPath, Top.plugins))
    /\ UNCHANGED <<sheet, nodesOf, imports, orderedImports, records, reads,
                   messages, thrown, phase, brokerVars, lookup, previous>>

\* A node that is neither an import nor a container.
Skip ==
    /\ AtNode
    /\ ~isImportNode(StyleNode)
    /\ ~HasNodes(StyleNode)
    /\ stack' = SetTop(Advance(Top))
    /\ UNCHANGED <<sheet, nodesOf, imports, orderedImports, records, reads,
                   messages, thrown, phase, brokerVars, lookup, previous>>

\* Mutant: a nested invocation strips the @imports at the top of its tree.
NestedExit_Sweeps(heap, root) ==
    [heap EXCEPT ![root] = SelectSeq(@, LAMBDA n : ~isImportNode(n))]

\* if (!isRoot) return: a nested invocation leaves every tree as it is.
NestedExit(heap, root) == heap

\* A findImports call has gone through its nodes.  The caller resumes: a
\* nested OnceExit returns at `if (!isRoot) return` and the record is built
\* next; a recursive call returns into the reduce.  When the root's own
\* call returns, OnceExit goes on to the injection.
Return ==
    /\ phase = "discover"
    /\ Top.pc = "visit"
    /\ Top.i > Len(nodesOf[Top.styles])
    /\ LET rest == SubSeq(stack, 1, Len(stack) - 1)
           caller == rest[Len(rest)]
       IN  IF rest = << >>
           THEN /\ stack' = rest
                /\ phase' = "inject"
                /\ UNCHANGED nodesOf
           ELSE /\ stack' = [rest EXCEPT ![Len(rest)] =
                               IF caller.pc = "nested"
                               THEN [caller EXCEPT !.pc = "processed"]
                               ELSE Advance(caller)]
                /\ nodesOf' = IF caller.pc = "nested"
                              THEN NestedExit(nodesOf, Top.styles)
                              ELSE nodesOf
                /\ UNCHANGED phase
    /\ UNCHANGED <<sheet, imports, orderedImports, records, reads,
                   messages, thrown, brokerVars, lookup, previous>>

\* --------------------------------------------------- OnceExit: injection
\* Array.prototype.indexOf, 1-based; 0 stands for -1.
IndexOf(arr, x) ==
    IF \E j \in 1..Len(arr) : arr[j] = x
    THEN CHOOSE j \in 1..Len(arr) : arr[j] = x /\ \A m \in 1..(j - 1) : arr[m] # x
    ELSE 0

\* arr.splice(indexOf, 1, ...items); an index of -1 counts from the end.
SpliceOne(arr, index, items) ==
    LET at == IF index = 0 THEN Len(arr) ELSE index
    IN  IF arr = << >> THEN items
        ELSE SubSeq(arr, 1, at - 1) \o items \o SubSeq(arr, at + 1, Len(arr))

RECURSIVE recursiveLook(_, _, _, _, _)
\* Lines 179-199: look for styleNode in the containers below `nodes`, from
\* position j on; found is [index, parentNodes].
recursiveLook(heap, nodes, j, styleNode, found) ==
    IF j > Len(nodes) \/ found.index > 0 THEN found
    ELSE IF HasNodes(nodes[j])
    THEN LET inner == heap[nodes[j]]
             index == IndexOf(inner, styleNode)
         IN  recursiveLook(heap, nodes, j + 1, styleNode,
                IF index = 0
                THEN recursiveLook(heap, inner, 1, styleNode, found)
                ELSE [index |-> index, parentNodes |-> inner])
    ELSE recursiveLook(heap, nodes, j + 1, styleNode, found)

\* Lines 166-204: the node standing before the import in its parent.
PrevNode(heap, styleNode) ==
    LET parentNodes == heap[Parent(styleNode)]
        index == IndexOf(parentNodes, styleNode)
        found == IF index = 0
                 THEN recursiveLook(heap, parentNodes, 1, styleNode,
                                    [index |-> 0, parentNodes |-> parentNodes])
                 ELSE [index |-> index, parentNodes |-> parentNodes]
    IN  IF found.index > 1 THEN found.parentNodes[found.index - 1] ELSE NoNode

RECURSIVE LastMatch(_, _, _, _)
\* nodes.forEach: the last node from j on whose selector is `selector` or
\* the modifier followed by it; foundRule when there is none.
LastMatch(nodes, j, selector, foundRule) ==
    IF j > Len(nodes) THEN foundRule
    ELSE LastMatch(nodes, j + 1, selector,
            IF Selector(nodes[j]) = selector
               \/ Selector(nodes[j]) = ModifiedSelector(selector)
            THEN nodes[j] ELSE foundRule)

RECURSIVE LastMatchInImports(_, _, _, _, _)
\* orderedImports.forEach((r) => r.root.nodes.forEach(...)), lines 245-263.
LastMatchInImports(heap, recs, j, selector, foundRule) ==
    IF j > Len(recs) THEN foundRule
    ELSE LastMatchInImports(heap, recs, j + 1, selector,
            LastMatch(heap[recs[j].root], 1, selector, foundRule))

\* findSelector: the root style sheet first, then every import's root.
findSelector(heap, rootStyles, recs, selector) ==
    LET inRoot == LastMatch(heap[rootStyles], 1, selector, NoNode)
    IN  IF inRoot # NoNode THEN inRoot
        ELSE LastMatchInImports(heap, recs, 1, selector, NoNode)

RECURSIVE ReplaceImports(_, _, _, _, _)
\* Lines 286-312: over a copy of foundRule.nodes, every @import resolving
\* (from the directory of the record's fromPath) to the record's path is
\* replaced by the record's root nodes.  acc is [heap, foundImport].
ReplaceImports(acc, foundRule, copy, j, rec) ==
    IF j > Len(copy) THEN acc
    ELSE IF isImportNode(copy[j])
            /\ Resolve(Filename(copy[j]), Dirname(rec.fromPath)) = rec.fullpath
    THEN ReplaceImports(
            [heap |-> [acc.heap EXCEPT ![foundRule] =
                          SpliceOne(@, IndexOf(@, copy[j]), acc.heap[rec.root])],
             foundImport |-> TRUE],
            foundRule, copy, j + 1, rec)
    ELSE ReplaceImports(acc, foundRule, copy, j + 1, rec)

MissingRuleError == "Missing inclusion rule selector"
MissingImportError == "Unable to inject inclusion import, missing @import"

\* Mutant: a record that cannot be placed is passed over in silence.
InjectScoped_Lenient(st, rootStyles, recs, rec, j) == st

RECURSIVE InjectScoped(_, _, _, _, _)
\* Array.from(inclusionRules).forEach, lines 272-325; a throw ends it.
\* foundRule and the outcome of the replacement are bound as values, so
\* that each is computed once per rule.
InjectScoped(st, rootStyles, recs, rec, j) ==
    IF j > Len(rec.inclusionRules) \/ st.thrown # "" THEN st
    ELSE CHOOSE out \in
           {IF foundRule = NoNode
            THEN [st EXCEPT !.thrown = MissingRuleError]
            ELSE CHOOSE placed \in
                   {IF ~done.foundImport
                    THEN [st EXCEPT !.thrown = MissingImportError]
                    ELSE InjectScoped([st EXCEPT !.heap = done.heap],
                                      rootStyles, recs, rec, j + 1) :
                      done \in {ReplaceImports(
                                  [heap |-> st.heap, foundImport |-> FALSE],
                                  foundRule, st.heap[foundRule], 1, rec)}} :
                   TRUE :
              foundRule \in {findSelector(st.heap, rootStyles, recs,
                                          DotSelector(rec.inclusionRules[j]))}} :
           TRUE

\* safeRemove(prevNode): node.remove() takes it out of its parent's nodes.
SafeRemove(heap, node) ==
    LET index == IndexOf(heap[Parent(node)], node)
    IN  IF index = 0 THEN heap
        ELSE [heap EXCEPT ![Parent(node)] = SpliceOne(@, index, << >>)]

\* prevNode.type === 'comment' && !prevNode.text.includes('condition')
IsPlainComment(node) == node.kind = "comment" /\ ItemOf(node).comment = "plain"

\* Mutant: a globally imported record is injected into its rules as well.
IsScopedOnly_Both(rec) == rec.inclusionRules # << >>

\* The else branch of `if (isGloballyImported)`.
IsScopedOnly(rec) == ~rec.isGloballyImported

\* Mutant: the dependency names the importing file.
DependencyMessage_Importer(rec) == [type |-> "dependency", file |-> rec.fromPath]

\* result.messages.push({ type: 'dependency', file: fullpath })
DependencyMessage(rec) == [type |-> "dependency", file |-> rec.fullpath]

\* The body of orderedImports.forEach for one record, lines 166-337.
InjectRecord(st, rootStyles, recs, rec) ==
    LET prevNode == PrevNode(st.heap, rec.styleNode)
        noted == [st EXCEPT !.messages = Append(@, DependencyMessage(rec))]
        shared == IF rec.isGloballyImported
                  THEN [noted EXCEPT !.shared = @ \o st.heap[rec.root]]
                  ELSE noted
    IN  CHOOSE out \in
          {IF placed.thrown # "" THEN placed
           ELSE IF prevNode # NoNode /\ IsPlainComment(prevNode)
           THEN [placed EXCEPT !.heap = SafeRemove(@, prevNode)]
           ELSE placed :
             placed \in {IF IsScopedOnly(rec)
                         THEN InjectScoped(shared, rootStyles, recs, rec, 1)
                         ELSE shared}} :
          TRUE

RECURSIVE InjectFrom(_, _, _, _)
\* orderedImports.forEach from record j on; the state a record's body
\* leaves is bound as a value before the next record is taken.
InjectFrom(st, rootStyles, recs, j) ==
    IF j > Len(recs) \/ st.thrown # "" THEN st
    ELSE CHOOSE out \in {InjectFrom(next, rootStyles, recs, j + 1) :
                            next \in {InjectRecord(st, rootStyles, recs, recs[j])}} :
            TRUE

\* Mutant: the shared dependencies are put after the root's own nodes.
Prepend_After(sharedDependencies, nodes) == nodes \o sharedDependencies

\* rootStyles.nodes.splice(0, 0, ...sharedDependencies)
Prepend(sharedDependencies, nodes) == sharedDependencies \o nodes

\* Mutant: the sweep stays at the top level.
removeAllImports_Shallow(heap, rootNode) ==
    [heap EXCEPT ![rootNode] = SelectSeq(@, LAMBDA n : ~isImportNode(n))]

RECURSIVE removeAllImports(_, _)
RECURSIVE RemoveFrom(_, _, _, _)
\* [...rootNode.nodes].forEach from position j of the copy on; the tree a
\* node's turn leaves is bound as a value before the next node is taken.
RemoveFrom(heap, rootNode, copy, j) ==
    IF j > Len(copy) THEN heap
    ELSE CHOOSE out \in
           {RemoveFrom(next, rootNode, copy, j + 1) :
              next \in {IF isImportNode(copy[j])
                        THEN [heap EXCEPT ![rootNode] =
                                SpliceOne(@, IndexOf(@, copy[j]), << >>)]
                        ELSE IF HasNodes(copy[j])
                        THEN removeAllImports(heap, copy[j])
                        ELSE heap}} :
           TRUE

removeAllImports(heap, rootNode) == RemoveFrom(heap, rootNode, heap[rootNode], 1)

RootStyles == Node(RootFile, 0, "root", 0)

\* orderedImports as the record objects it holds.
OrderedRecords == [j \in 1..Len(orderedImports) |-> records[orderedImports[j]]]

\* Lines 151-345 contain no await: the injection, the prepend and the
\* final sweep run in one step.
Inject ==
    /\ phase = "inject"
    /\ \E st \in {InjectFrom([heap |-> nodesOf, messages |-> messages,
                                shared |-> << >>, thrown |-> ""],
                               RootStyles, OrderedRecords, 1)} :
       LET prepended == [st.heap EXCEPT ![RootStyles] = Prepend(st.shared, @)]
       IN  IF st.thrown # ""
           THEN /\ nodesOf' = st.heap
                /\ messages' = st.messages
                /\ thrown' = st.thrown
                /\ phase' = "failed"
           ELSE /\ nodesOf' = removeAllImports(prepended, RootStyles)
                /\ messages' = st.messages
                /\ thrown' = ""
                /\ phase' = "done"
    /\ UNCHANGED <<sheet, imports, orderedImports, records, stack, reads,
                   brokerVars, lookup, previous>>

NextResolver ==
    \/ Merge
    \/ ReadFile
    \/ Process
    \/ Register
    \/ Descend
    \/ Skip
    \/ Return
    \/ Inject

SpecResolver == InitResolver /\ [][NextResolver]_vars

\* Every await of OnceExit is settled by the event loop (a file read, a
\* nested process() call, a resolved promise of the reduce): the pending
\* continuation is run.
SpecResolverFair == SpecResolver /\ WF_vars(NextResolver)

\* ------------------------------------------ the same sheet, resolved again
\* Mutant: the second resolve is handed the first one's Map.
NewMap_Reused == imports

\* result.opts.imports || new Map(): a root invocation gets no `imports`.
NewMap == << >>

\* What a resolve left behind: how it ended, the documents, the list.
Outcome ==
    [phase |-> phase, thrown |-> thrown, nodesOf |-> nodesOf,
     orderedImports |-> OrderedRecords, messages |-> messages]

\* postcss(...).process is called once more on the root file: the file is
\* parsed anew and OnceExit starts with a new Map and a new array.  The
\* record objects of the first resolve stay on the heap, unreferenced.
ResolveAgain ==
    /\ phase \in {"done", "failed"}
    /\ previous = NoRun
    /\ previous' = Outcome
    /\ nodesOf' = Parse(RootFile, 0)
    /\ imports' = NewMap
    /\ orderedImports' = << >>
    /\ stack' = <<Frame(Node(RootFile, 0, "root", 0),
                        PathOf(sheet.files, RootFile), sheet.plugins)>>
    /\ reads' = << >>
    /\ messages' = << >>
    /\ thrown' = ""
    /\ phase' = "discover"
    /\ UNCHANGED <<sheet, records, brokerVars, lookup>>

NextRepeat ==
    \/ Merge
    \/ ReadFile
    \/ Process
    \/ Register
    \/ Descend
    \/ Skip
    \/ Return
    \/ Inject
    \/ ResolveAgain

SpecRepeat == InitResolver /\ [][NextRepeat]_vars

\* ------------------------------------------------------------ the claims
\* The step in which request r's handler ran spawnWebpackForEntry.
EnsureStep(r) == req[r].pc = "new" /\ req'[r].pc = "ensured"

\* Position of the spawn of process p in the log.
SpawnIndex(p) == CHOOSE i \in 1..Len(log) : log[i] = <<"spawn", p>>

\* A reset() was called between the spawns of p and q.
ResetBetween(p, q) ==
    \E i \in 1..Len(log) :
        /\ SpawnIndex(p) < i
        /\ i < SpawnIndex(q)
        /\ log[i][1] = "reset"

\* The elements of a sequence.
Range(arr) == {arr[i] : i \in 1..Len(arr)}

\* seq1 is a prefix of seq2.
IsPrefix(seq1, seq2) ==
    /\ Len(seq1) <= Len(seq2)
    /\ SubSeq(seq2, 1, Len(seq1)) = seq1

C4_AtMostOneLive ==
    Cardinality({p \in 1..Len(procs) : procs[p].state # "exited"}) <= 1

C8_ProxiedToBuilder ==
    [][\A r \in Requests :
         (/\ Resets = 1
          /\ req[r].pc = "proxying"
          /\ req'[r].pc = "served"
          /\ req[r].rootEntry # Undefined)
         => \A p \in Listeners :
                SetHas(Split(procs[p].ENTRY_TARGET), req[r].rootEntry)]_vars

C10_UnclassifiedAlwaysProxied ==
    [][\A r \in Requests :
         /\ (req[r].pc = "new" /\ req'[r].pc = "waitAny")
            => UNCHANGED <<webpackEntryPoints, webpackDevServer, procs, log>>
         /\ req[r].pc = "waitAny" => req'[r].pc \in {"waitAny", "proxying"}]_vars

\* The broker state a request handler could touch.
BrokerState == <<webpackEntryPoints, webpackDevServer, procs, log, httpServer>>

\* The handlers of the other requests stand where they stood.
OthersUntouched(r) == \A q \in Requests \ {r} : req'[q] = req[q]

Elems(arr) == {arr[i] : i \in 1..Len(arr)}

\* The asset as the style matching is described: '.rtl' dropped from the
\* end, then 'src/less/' dropped from the front.
StyleName(asset) ==
    LET a == IF EndsWith(asset, RtlSuffix)
             THEN SubSeq(asset, 1, Len(asset) - Len(RtlSuffix)) ELSE asset
    IN  IF StartsWith(a, SrcLessPrefix)
        THEN SubSeq(a, Len(SrcLessPrefix) + 1, Len(a)) ELSE a

\* A style entry without its '.less' extension.
StyleEntryName(cssEntry) ==
    IF EndsWith(cssEntry, LessExt)
    THEN SubSeq(cssEntry, 1, Len(cssEntry) - Len(LessExt)) ELSE cssEntry

\* Entry i lists the asset among its scripts / among its styles.
ScriptListed(i) == lookup.asset \in Elems(lookup.entryPoints[i][1])

StyleListed(i) ==
    \E c \in Elems(lookup.entryPoints[i][2]) :
        StyleEntryName(c) = StyleName(lookup.asset)

\* The style loop of entry i, as written, takes the asset for one of its own.
StyleTaken(i) ==
    \E c \in Elems(lookup.entryPoints[i][2]) :
        CssBasename(c) = AssetWithoutRTL(lookup.asset)

LookupDone == lookup.state \in {"returned", "threw"}

\* C12: the lookup returns the first script of the first entry point whose
\* script list holds the asset, and returns nothing when no entry point's
\* script or style list claims the asset.
C12_ScriptExactMatch ==
    LookupDone =>
        LET n == Len(lookup.entryPoints)
            listed == {i \in 1..n : ScriptListed(i)}
            claimed == {i \in 1..n :
                          ScriptListed(i) \/ StyleListed(i) \/ StyleTaken(i)}
        IN  /\ (listed # {} /\ \A j \in claimed : \E i \in listed : i <= j)
                => /\ lookup.state = "returned"
                   /\ \E i \in listed :
                        /\ \A j \in listed : i <= j
                        /\ lookup.rootEntry = lookup.entryPoints[i][1][1]
            /\ claimed = {}
                => (lookup.state = "returned" /\ lookup.rootEntry = Undefined)

\* C13: an asset whose name, without a trailing '.rtl' and a leading
\* 'src/less/', is in the style list of an entry point (the first to claim
\* it) gets that entry point's first script.
C13_StyleBasenameMatch ==
    LookupDone =>
        LET n == Len(lookup.entryPoints)
            claimed == {i \in 1..n : ScriptListed(i) \/ StyleListed(i)}
        IN  \A i \in claimed :
                (/\ \A j \in claimed : i <= j
                 /\ StyleListed(i)
                 /\ lookup.entryPoints[i][1] # << >>)
                => /\ lookup.state = "returned"
                   /\ lookup.rootEntry = lookup.entryPoints[i][1][1]
\* ---- claims about the style import resolver (SpecResolver)
\* The paths file `path` imports, as written in its @import nodes.
ImportedBy(path) ==
    IF Exists(path)
    THEN {Resolve(IF it.rel THEN <<".", it.target>>
                  ELSE <<sheet.files[it.target].dir, it.target>>, path[1]) :
            it \in Elems(sheet.files[path[2]].items)}
    ELSE {}

RECURSIVE Closure(_, _)
\* Paths reachable from the set S in at most n import steps.
Closure(S, n) ==
    IF n = 0 THEN S
    ELSE Closure(S \cup UNION {ImportedBy(path) : path \in S}, n - 1)

\* Every path the root style sheet imports, directly or not.
ReachablePaths ==
    Closure({PathOf(sheet.files, RootFile)}, Len(sheet.files))
        \ {PathOf(sheet.files, RootFile)}

\* The @import sites of `path` in the files that take part in the resolve.
SitesOf(path) ==
    {<<from, i>> \in (ReachablePaths \cup {PathOf(sheet.files, RootFile)})
                        \X (1..MaxImports) :
        /\ Exists(from)
        /\ i <= Len(sheet.files[from[2]].items)
        /\ LET it == sheet.files[from[2]].items[i]
           IN  Resolve(IF it.rel THEN <<".", it.target>>
                       ELSE <<sheet.files[it.target].dir, it.target>>,
                       from[1]) = path}

SiteItem(site) == sheet.files[site[1][2]].items[site[2]]

ReadCount(path) == Cardinality({j \in 1..Len(reads) : reads[j] = path})

\* findImports(rootStyles, from) has returned.
Discovered == phase \in {"inject", "done"} \/ (phase = "failed" /\ thrown # "ENOENT")

\* C16: in a resolve of an acyclic graph no path is read twice, and once
\* discovery has returned every path the root reaches has been read
\* exactly once, however many @imports name it.
C16_EachFileReadOnce ==
    phase # "idle" =>
        /\ \A path \in Elems(reads) : ReadCount(path) = 1
        /\ Discovered => Elems(reads) = ReachablePaths

\* A file imported from two files, once inside a rule of another imported
\* file, has been read once.
C16_Witness ==
    /\ phase = "done"
    /\ \E path \in ReachablePaths :
        /\ ReadCount(path) = 1
        /\ Cardinality(SitesOf(path)) = 2
        /\ \E site \in SitesOf(path) :
            /\ site[1] # PathOf(sheet.files, RootFile)
            /\ SiteItem(site).sel # << >>

\* The record map and the ordered list agree on one record per path.
OneRecordPerPath ==
    /\ \A path \in DOMAIN imports :
        /\ imports[path] \in 1..Len(records)
        /\ records[imports[path]].fullpath = path
    /\ {imports[path] : path \in DOMAIN imports} = Elems(orderedImports)
    /\ Elems(orderedImports) = 1..Len(records)
    /\ \A j, m \in 1..Len(orderedImports) :
        (orderedImports[j] = orderedImports[m]
         \/ records[orderedImports[j]].fullpath = records[orderedImports[m]].fullpath)
        => j = m

\* A step keeps every record of the map in place; what it may change of a
\* record is its global flag and its rules.
RecordsKept ==
    /\ \A path \in DOMAIN imports :
        /\ path \in DOMAIN imports'
        /\ imports'[path] = imports[path]
    /\ \A id \in 1..Len(records) :
        /\ id <= Len(records')
        /\ records'[id].fullpath = records[id].fullpath
        /\ records'[id].root = records[id].root
        /\ records'[id].styleNode = records[id].styleNode
    /\ (AtNode /\ isImportNode(StyleNode) /\ FullPath \in DOMAIN imports
        /\ stack' # stack)
       => /\ Len(records') = Len(records)
          /\ orderedImports' = orderedImports
          /\ records'[imports[FullPath]] =
                Merged(records[imports[FullPath]], FromInclusionRule(StyleNode))

\* C17: at every point of a resolve the map and the list hold the same
\* records, one per path and none twice, and an @import of a path that has
\* a record updates that record instead of making another.
C17_OneRecordPerPath ==
    /\ [](phase # "idle" => OneRecordPerPath)
    /\ [][phase = "discover" => RecordsKept]_vars

\* A record made for a scoped import has since been marked global and
\* given a second rule by later @imports of its path.
C17_Witness ==
    /\ phase = "discover"
    /\ \E id \in 1..Len(records) :
        /\ records[id].isGloballyImported
        /\ Len(records[id].inclusionRules) = 2
\* The declaration that stands for the content of the file at `path`.
ContentOf(path) == Node(path[2], 0, "decl", 0)

\* The rules and declarations of an array (imports and comments left out).
Content(arr) == SelectSeq(arr, LAMBDA n : n.kind \in {"rule", "decl", "own"})

\* How often node x stands directly in the array arr.
CountIn(arr, x) == Cardinality({j \in 1..Len(arr) : arr[j] = x})

RECURSIVE Containers(_, _)
\* The containers of the tree below the set S (n levels down).
Containers(S, n) ==
    IF n = 0 THEN S
    ELSE Containers(
            S \cup {c \in UNION {Elems(nodesOf[d]) : d \in S} : HasNodes(c)},
            n - 1)

\* The containers of the output document.
OutputContainers == Containers({RootStyles}, 2 * MaxFiles)

\* The rule node an @import site was written in.
RuleOfSite(site) == Node(site[1][2], site[2], "rule", 0)

\* All @imports of the path sit inside inclusion rules, each in a rule of
\* its own tag and no two with the same tag: N = the number of sites.
OnlyScoped(path) ==
    /\ SitesOf(path) # {}
    /\ \A site \in SitesOf(path) :
        /\ SiteItem(site).tag # NoRule
        /\ SiteItem(site).sel \in {DotSelector(SiteItem(site).tag),
                                   ModifiedSelector(DotSelector(SiteItem(site).tag))}
    /\ \A a, b \in SitesOf(path) : SiteItem(a).tag = SiteItem(b).tag => a = b

\* The resolve has ended, with a document or with an error.
Ended == phase \in {"done", "failed"}

\* C18: a file imported only from inside N inclusion rules ends up once in
\* each of these rules, at the place of the @import, and nowhere else.
C18_ScopedCopies ==
    Ended =>
        \A path \in ReachablePaths :
            OnlyScoped(path) =>
                /\ phase = "done"
                /\ \A site \in SitesOf(path) :
                    Content(nodesOf[RuleOfSite(site)]) =
                        Content(TopLevel(path[2], 1, 0))
                            \o <<Node(site[1][2], site[2], "own", 0)>>
                /\ \A c \in OutputContainers :
                    CountIn(nodesOf[c], ContentOf(path)) > 0
                        => c \in {RuleOfSite(site) : site \in SitesOf(path)}

\* The path is imported once at the top level and once from inside an
\* inclusion rule.
GlobalAndScoped(path) ==
    \E g, r \in SitesOf(path) :
        /\ SitesOf(path) = {g, r}
        /\ SiteItem(g).tag = NoRule /\ SiteItem(g).sel = << >>
        /\ SiteItem(r).tag # NoRule
        /\ SiteItem(r).sel = DotSelector(SiteItem(r).tag)

\* C19 as stated: such a file is in the output twice, once at the top
\* level and once inside the rule.
C19_BothBehaviours ==
    phase = "done" =>
        \A path \in ReachablePaths :
            GlobalAndScoped(path) =>
                /\ CountIn(nodesOf[RootStyles], ContentOf(path)) = 1
                /\ \E r \in SitesOf(path) :
                    /\ SiteItem(r).tag # NoRule
                    /\ CountIn(nodesOf[RuleOfSite(r)], ContentOf(path)) = 1

\* C19, amended: a file imported once at the top level and once from inside
\* an inclusion rule is in the output once, at the top level; the rule
\* keeps nothing of it, its @import is only removed.
C19_GlobalWins ==
    phase = "done" =>
        \A path \in ReachablePaths :
            GlobalAndScoped(path) =>
                /\ CountIn(nodesOf[RootStyles], ContentOf(path)) = 1
                /\ \A c \in OutputContainers \ {RootStyles} :
                    CountIn(nodesOf[c], ContentOf(path)) = 0
                /\ \A r \in SitesOf(path) :
                    SiteItem(r).tag # NoRule
                    => nodesOf[RuleOfSite(r)] = <<Node(r[1][2], r[2], "own", 0)>>

\* A resolve ended with a file that was imported both ways.
C19_Witness ==
    /\ phase = "done"
    /\ \E path \in ReachablePaths : GlobalAndScoped(path)

RECURSIVE GlobalContent(_)
\* The content of the globally imported records from record j on, in the
\* order of orderedImports.
GlobalContent(j) ==
    IF j > Len(orderedImports) THEN << >>
    ELSE (IF records[orderedImports[j]].isGloballyImported
          THEN Content(TopLevel(records[orderedImports[j]].fullpath[2], 1, 0))
          ELSE << >>)
         \o GlobalContent(j + 1)

\* C20: the top level of the output is the content of every globally
\* imported record, once each and in the order of orderedImports, followed
\* by what the root style sheet itself holds.
C20_GlobalsPrepended ==
    phase = "done" =>
        Content(nodesOf[RootStyles])
            = GlobalContent(1) \o Content(TopLevel(RootFile, 1, 0))

\* Two globally imported records and a rule of the root's own.
C20_Witness ==
    /\ phase = "done"
    /\ Cardinality({j \in 1..Len(records) : records[j].isGloballyImported}) >= 2
    /\ \E n \in Elems(TopLevel(RootFile, 1, 0)) : n.kind = "rule"

\* C21: when a root resolve has completed without error no @import node is
\* left in any container of the output, whether the container came with the
\* root, with a globally inlined file or with a file spliced into a rule.
C21_NoImportLeft ==
    phase = "done" =>
        \A c \in OutputContainers :
            \A j \in 1..Len(nodesOf[c]) : ~isImportNode(nodesOf[c][j])

\* The output holds a rule of an imported file whose @import was not
\* replaced by the injection (its target is global): only the sweep took it.
C21_Witness ==
    /\ phase = "done"
    /\ \E path \in ReachablePaths :
        /\ records[imports[path]].isGloballyImported
        /\ \E site \in SitesOf(path) :
            /\ site[1] # PathOf(sheet.files, RootFile)
            /\ SiteItem(site).sel # << >>
            /\ RuleOfSite(site) \in OutputContainers

\* The rules at the top level of the root document and of every record's
\* subtree whose selector is `.tag` or the modifier followed by it.
ScopeRules(tag) ==
    {n \in UNION {Elems(nodesOf[c]) :
                    c \in {RootStyles} \cup {records[id].root : id \in Elems(orderedImports)}} :
        Selector(n) \in {DotSelector(tag), ModifiedSelector(DotSelector(tag))}}

\* Case (a): a tag of a record scoped only to inclusion rules has no rule.
NoScopeRule ==
    \E id \in Elems(orderedImports) :
        /\ ~records[id].isGloballyImported
        /\ \E tag \in Elems(records[id].inclusionRules) : ScopeRules(tag) = {}

\* Case (b): the rule matched for a tag holds no @import that resolves,
\* from the directory of the record's first importer, to the record's path.
NoImportInScope ==
    \E id \in Elems(orderedImports) :
        /\ ~records[id].isGloballyImported
        /\ \E tag \in Elems(records[id].inclusionRules) :
            LET foundRule == findSelector(nodesOf, RootStyles, OrderedRecords,
                                          DotSelector(tag))
            IN  /\ foundRule # NoNode
                /\ \A n \in Elems(nodesOf[foundRule]) :
                     ~(/\ isImportNode(n)
                       /\ Resolve(Filename(n), Dirname(records[id].fromPath))
                            = records[id].fullpath)

InjectionStep == phase = "inject" /\ phase' # "inject"

C22_WitnessMissingImport ==
    /\ phase = "failed"
    /\ thrown = MissingImportError
    /\ NoImportInScope

\* C23: a completed root resolve has emitted, in the order of the Ordered
\* Import List, one {type: 'dependency', file} message per record; the files
\* named are pairwise distinct and are exactly the paths reachable through
\* the imports of the sheet.
C23_OneDependencyPerFile ==
    phase = "done" =>
        /\ Len(messages) = Len(orderedImports)
        /\ \A j \in 1..Len(messages) :
             /\ messages[j].type = "dependency"
             /\ messages[j].file = records[orderedImports[j]].fullpath
        /\ \A j, k \in 1..Len(messages) :
             messages[j].file = messages[k].file => j = k
        /\ {messages[j].file : j \in 1..Len(messages)} = ReachablePaths

\* A global and a scoped record were inlined, and one file was imported
\* from two places.
C23_Witness ==
    /\ phase = "done"
    /\ \E j, k \in 1..Len(messages) :
         /\ records[orderedImports[j]].isGloballyImported
         /\ ~records[orderedImports[k]].isGloballyImported
    /\ \E path \in ReachablePaths : Cardinality(SitesOf(path)) = 2

LiveWorkerCrashed ==
    /\ webpackDevServer # 0
    /\ ~procs[webpackDevServer].killed
    /\ procs[webpackDevServer].state = "exited"

\* The live worker exits on its own in this step.
LiveWorkerCrashes ==
    /\ webpackDevServer # 0
    /\ ~procs[webpackDevServer].killed
    /\ procs[webpackDevServer].state # "exited"
    /\ procs'[webpackDevServer].state = "exited"

OrderOf(path) ==
    CHOOSE j \in 1..Len(orderedImports) : records[orderedImports[j]].fullpath = path

\* The file whose @import first discovered `path`.
DiscoveredFrom(path) == records[imports[path]].fromPath

RECURSIVE Beneath(_, _)
\* `path` and the paths first discovered through it, n levels down.
Beneath(S, n) ==
    IF n = 0 THEN S
    ELSE Beneath(S \cup {q \in DOMAIN imports : DiscoveredFrom(q) \in S}, n - 1)

\* X and Y were first discovered by two @imports of one file, X's first.
SiblingsInOrder(x, y) ==
    /\ x # y
    /\ DiscoveredFrom(x) = DiscoveredFrom(y)
    /\ records[imports[x]].styleNode.item < records[imports[y]].styleNode.item

\* C26: after discovery the Ordered Import List is in depth-first document
\* order: the record of a file precedes the records of the files first
\* discovered through that file's imports, and of two files first
\* discovered by sibling imports X then Y, X and everything first
\* discovered beneath X precede Y.
C26_DepthFirstOrder ==
    Discovered =>
        /\ \A path \in DOMAIN imports :
             DiscoveredFrom(path) \in DOMAIN imports
                => OrderOf(DiscoveredFrom(path)) < OrderOf(path)
        /\ \A x, y \in DOMAIN imports :
             SiblingsInOrder(x, y)
                => \A z \in Beneath({x}, MaxFiles) : OrderOf(z) < OrderOf(y)

\* The tags of the @imports of `path` that carry one.
ScopedTags(path) ==
    {SiteItem(site).tag : site \in {x \in SitesOf(path) : SiteItem(x).tag # NoRule}}

\* Every record's flag and rule set are what the references to its path say.
FlagsMatchReferences ==
    \A path \in DOMAIN imports :
        LET rec == records[imports[path]]
        IN  /\ rec.isGloballyImported
                <=> \E site \in SitesOf(path) : SiteItem(site).tag = NoRule
            /\ Elems(rec.inclusionRules) = ScopedTags(path)

\* The reduce callback handles an @import of a path that has a record.
RepeatedReference ==
    /\ AtNode
    /\ isImportNode(StyleNode)
    /\ FullPath \in DOMAIN imports
    /\ stack' # stack

\* C27: once discovery has returned, every record is global exactly when
\* some @import of its path has no inclusion rule, and its inclusionRules
\* are exactly the tags of the @imports that have one.  An @import of a
\* known path changes that one record only, by setting the flag or adding
\* a tag, never by clearing or removing; nothing is read or parsed.
C27_FlagsFollowReferences ==
    [][/\ Discovered' => FlagsMatchReferences'
       /\ RepeatedReference =>
            LET id == imports[FullPath]
            IN  /\ records[id].isGloballyImported => records'[id].isGloballyImported
                /\ Elems(records[id].inclusionRules) \subseteq Elems(records'[id].inclusionRules)
                /\ records'[id].isGloballyImported # records[id].isGloballyImported
                     => FromInclusionRule(StyleNode) = NoRule
                /\ Elems(records'[id].inclusionRules) \ Elems(records[id].inclusionRules)
                     \subseteq {FromInclusionRule(StyleNode)} \ {NoRule}
                /\ \A other \in DOMAIN records : other # id => records'[other] = records[other]
                /\ UNCHANGED <<reads, nodesOf, imports, orderedImports>>]_vars

\* A record that began scoped, was promoted to global by a later @import
\* and gathered a second tag.
C27_Witness ==
    /\ phase = "done"
    /\ \E path \in DOMAIN imports :
        LET rec == records[imports[path]]
        IN  /\ FromInclusionRule(rec.styleNode) # NoRule
            /\ rec.isGloballyImported
            /\ Len(rec.inclusionRules) = 2

\* A nested invocation (the inner plugin's OnceExit, started by process()
\* with `nested` in its options) has not returned yet.
NestedRunning ==
    /\ phase = "discover"
    /\ \E j \in 1..Len(stack) : stack[j].pc = "nested"

\* C28: no step of a nested invocation, its return included, emits a
\* dependency message or changes the nodes of any parsed container (nothing
\* prepended, spliced or removed), and none ends the resolve with a
\* document; the shared map and list only grow.
C28_NestedOnlyDiscovers ==
    [][NestedRunning =>
         /\ messages' = messages
         /\ \A c \in DOMAIN nodesOf : nodesOf'[c] = nodesOf[c]
         /\ phase' \in {"discover", "failed"}
         /\ \A path \in DOMAIN imports :
              path \in DOMAIN imports' /\ imports'[path] = imports[path]
         /\ IsPrefix(orderedImports, orderedImports')]_vars

\* A nested invocation has returned after adding a record for an @import
\* of its file, and the @import is still in the file's tree.
C28_Witness ==
    /\ phase = "discover"
    /\ stack # << >>
    /\ Top.pc = "processed"
    /\ Top.plugins
    /\ \E j \in 1..Len(orderedImports) :
         /\ records[orderedImports[j]].fromPath = FullPath
         /\ records[orderedImports[j]].styleNode \in Elems(nodesOf[Top.root])

WorkersAccept ==
    \A p \in 1..MaxProcs :
        <>[](p <= Len(procs) /\ ~procs[p].killed)
            => <>(p <= Len(procs) /\ procs[p].state = "listening")

\* Every worker that stays unkilled comes to accept connections for good.
WorkersComeUp ==
    \A p \in 1..MaxProcs :
        <>[](p <= Len(procs) /\ ~procs[p].killed)
            => <>[](p <= Len(procs) /\ procs[p].state = "listening")

\* The handler of r is between spawnWebpackForEntry and proxyRequest.
Pending(r) == req[r].pc \in {"ensured", "grace", "probe"}

\* proxyRequest has been called for r.
Proxied(r) == req[r].pc \in {"proxying", "served", "notfound"}

SecondCreate == servers # << >> /\ Len(servers') = Len(servers) + 1

\* reset() was called through one of the returned objects.
ObjectReset ==
    /\ Len(servers') = Len(servers)
    /\ Len(log') > Len(log)
    /\ log'[Len(log) + 1] = <<"reset", 0>>

C32_ResolveTerminates == <>(phase \in {"done", "failed"})

\* A resolve with nested invocations, two levels of imports deep, has
\* produced its document.
C32_Witness ==
    /\ phase = "done"
    /\ sheet.plugins
    /\ \E j \in 1..Len(orderedImports) :
         records[orderedImports[j]].fromPath # PathOf(sheet.files, RootFile)
====
